---- MODULE Spec2Model ----
(***************************************************************************)
(* Model of app.py, the LoRA metadata viewer server: the safetensors       *)
(* header codec (extract_safetensors_metadata, update_safetensors_metadata)*)
(* and the three request handlers that reach files through a caller        *)
(* supplied name (serve_file, get_file_metadata, update_file_metadata).    *)
(*                                                                         *)
(* Scale.  A file is a sequence of bytes.  A byte of the model carries     *)
(* Base-many values (0 .. Base-1) instead of 256, so that the 4-byte      *)
(* word of struct '<I' has the range 0 .. Base^4 - 1 and a header that     *)
(* does not fit the word is a sequence TLC can hold.  The layout is the    *)
(* program's: an 8-byte prefix, of which the program reads and writes the  *)
(* low 4 bytes as the length.  A character of the JSON text occupies       *)
(* CharWidth bytes (its code in base Base); codes above the alphabet are   *)
(* byte strings that are not valid UTF-8.                                  *)
(*                                                                         *)
(* A Python value is a record: t is its type, and s (str), n (int, bool),  *)
(* xs (list) or kv (dict) its payload.  A dict is the sequence of its      *)
(* items [k, x] in insertion order.                                        *)
(***************************************************************************)
EXTENDS Integers, Sequences, FiniteSets, TLC

Base == 4
CharWidth == 3
PrefixLen == 8
WordLen == 4

\* the values of the 4-byte word: 0 .. WordLimit - 1
WordLimit == Base ^ WordLen

(***************************************************************************)
(* Characters.                                                             *)
(***************************************************************************)
Alphabet ==
    << "{", "}", "[", "]", ":", ",", "\"", "\\", " ",
       "0", "1", "2", "3", "4", "5", "6", "7", "8", "9",
       "_", "m", "e", "t", "a", "d", "r", "u", "f", "l", "s", "n", "b" >>

Digits == << "0", "1", "2", "3", "4", "5", "6", "7", "8", "9" >>

IndexOf(seq, x) == CHOOSE i \in 1 .. Len(seq) : seq[i] = x

CharCode(c) == IndexOf(Alphabet, c) - 1

\* s[from..] in Python: everything from 0-based offset `from` on, empty past the end
SliceFrom(s, from) ==
    IF from >= Len(s) THEN << >> ELSE SubSeq(s, from + 1, Len(s))

\* s[a:b] in Python, 0-based, clipped to the sequence
Slice(s, a, b) ==
    LET hi == IF b > Len(s) THEN Len(s) ELSE b
    IN  IF a >= hi THEN << >> ELSE SubSeq(s, a + 1, hi)

Repeat(c, n) == SubSeq([i \in 1 .. n |-> c], 1, n)

\* the concatenation of a sequence of sequences
RECURSIVE Concat(_)
Concat(seqs) ==
    IF seqs = << >> THEN << >>
    ELSE IF Len(seqs) = 1 THEN seqs[1]
    ELSE LET h == Len(seqs) \div 2
         IN  Concat(SubSeq(seqs, 1, h)) \o Concat(SubSeq(seqs, h + 1, Len(seqs)))

(***************************************************************************)
(* str.encode('utf-8') and bytes.decode('utf-8')                           *)
(***************************************************************************)
\* the k-th byte (k = 0 first) of the character with this code
CodeDigit(code, k) == (code \div (Base ^ (CharWidth - 1 - k))) % Base

Utf8Encode(text) ==
    SubSeq([i \in 1 .. (CharWidth * Len(text)) |->
               CodeDigit(CharCode(text[((i - 1) \div CharWidth) + 1]), (i - 1) % CharWidth)],
           1, CharWidth * Len(text))

\* the value of a byte string, most significant byte first
RECURSIVE BigEndian(_, _)
BigEndian(bytes, acc) ==
    IF bytes = << >> THEN acc ELSE BigEndian(Tail(bytes), acc * Base + Head(bytes))

\* the code the bytes of the j-th character spell
CodeAt(bytes, j) == BigEndian(SubSeq(bytes, CharWidth * (j - 1) + 1, CharWidth * j), 0)

\* [ok, v]: ok = FALSE is UnicodeDecodeError
Utf8Decode(bytes) ==
    LET n == Len(bytes) \div CharWidth
        codes == SubSeq([j \in 1 .. n |-> CodeAt(bytes, j)], 1, n)
    IN  IF Len(bytes) % CharWidth # 0 \/ \E j \in 1 .. n : codes[j] >= Len(Alphabet)
        THEN [ok |-> FALSE, v |-> << >>]
        ELSE [ok |-> TRUE, v |-> SubSeq([j \in 1 .. n |-> Alphabet[codes[j] + 1]], 1, n)]

(***************************************************************************)
(* struct.pack('<I', n) and struct.unpack('<I', b)                         *)
(***************************************************************************)
\* little-endian value of a byte string of any length
RECURSIVE LittleEndian(_)
LittleEndian(bytes) ==
    IF bytes = << >> THEN 0 ELSE Head(bytes) + Base * LittleEndian(Tail(bytes))

UnpackI(bytes) == LittleEndian(bytes)

\* a pack that keeps the low word of a number out of range instead of raising
PackIWrapping(n) ==
    [ok |-> TRUE,
     v |-> SubSeq([k \in 1 .. WordLen |-> ((n % WordLimit) \div (Base ^ (k - 1))) % Base],
                  1, WordLen)]

\* [ok, v]: ok = FALSE is struct.error (the argument is out of the word's range)
PackI(n) ==
    IF n < 0 \/ n >= WordLimit
    THEN [ok |-> FALSE, v |-> << >>]
    ELSE [ok |-> TRUE,
          v |-> SubSeq([k \in 1 .. WordLen |-> (n \div (Base ^ (k - 1))) % Base], 1, WordLen)]

(***************************************************************************)
(* Python values                                                           *)
(***************************************************************************)
PyStr(s) == [t |-> "str", s |-> s, n |-> 0, xs |-> << >>, kv |-> << >>]
PyInt(n) == [t |-> "int", s |-> << >>, n |-> n, xs |-> << >>, kv |-> << >>]
PyBool(b) == [t |-> "bool", s |-> << >>, n |-> IF b THEN 1 ELSE 0, xs |-> << >>, kv |-> << >>]
PyNone == [t |-> "none", s |-> << >>, n |-> 0, xs |-> << >>, kv |-> << >>]
PyList(xs) == [t |-> "list", s |-> << >>, n |-> 0, xs |-> xs, kv |-> << >>]
PyDict(items) == [t |-> "dict", s |-> << >>, n |-> 0, xs |-> << >>, kv |-> items]
\* a value json cannot serialize (a set, an object of some class)
PyObj == [t |-> "obj", s |-> << >>, n |-> 0, xs |-> << >>, kv |-> << >>]

Item(k, x) == [k |-> k, x |-> x]

\* bool(x): the truth value Python's `not x` tests
Truthy(x) ==
    CASE x.t = "str" -> x.s # << >>
      [] x.t = "int" -> x.n # 0
      [] x.t = "bool" -> x.n # 0
      [] x.t = "none" -> FALSE
      [] x.t = "list" -> x.xs # << >>
      [] x.t = "dict" -> x.kv # << >>
      [] OTHER -> TRUE

\* dict items: keys distinct, in insertion order
DictHas(items, k) == \E i \in 1 .. Len(items) : items[i].k = k

DictGet(items, k) == items[CHOOSE i \in 1 .. Len(items) : items[i].k = k].x

\* an assignment that forgets the other keys
DictSetAlone(items, k, x) == << Item(k, x) >>

\* d[k] = x: an existing key keeps its place, a new one goes last
DictSet(items, k, x) ==
    IF DictHas(items, k)
    THEN SubSeq([i \in 1 .. Len(items) |-> IF items[i].k = k THEN Item(k, x) ELSE items[i]],
                1, Len(items))
    ELSE Append(items, Item(k, x))

\* dict(pairs): a repeated key keeps its first place and its last value
RECURSIVE DictFromPairs(_, _)
DictFromPairs(pairs, acc) ==
    IF pairs = << >> THEN acc
    ELSE DictFromPairs(Tail(pairs), DictSet(acc, Head(pairs).k, Head(pairs).x))

(***************************************************************************)
(* json.dumps                                                              *)
(***************************************************************************)
RECURSIVE Serializable(_)
Serializable(x) ==
    CASE x.t = "list" -> \A i \in 1 .. Len(x.xs) : Serializable(x.xs[i])
      [] x.t = "dict" -> \A i \in 1 .. Len(x.kv) : Serializable(x.kv[i].x)
      [] x.t = "obj" -> FALSE
      [] OTHER -> TRUE

RECURSIVE IntToStr(_)
IntToStr(n) ==
    IF n < 10 THEN << Digits[n + 1] >> ELSE Append(IntToStr(n \div 10), Digits[(n % 10) + 1])

\* the characters a JSON string escapes
Special == {"\"", "\\"}

\* the body of a JSON string: " and \ are escaped
EscapeStr(s) ==
    Concat(SubSeq([i \in 1 .. Len(s) |->
                      IF s[i] \in Special THEN << "\\", s[i] >> ELSE << s[i] >>],
                  1, Len(s)))

QuoteStr(s) == << "\"" >> \o EscapeStr(s) \o << "\"" >>

RECURSIVE JoinSeqs(_, _)
JoinSeqs(parts, sep) ==
    IF parts = << >> THEN << >>
    ELSE IF Len(parts) = 1 THEN parts[1]
    ELSE parts[1] \o sep \o JoinSeqs(Tail(parts), sep)

RECURSIVE JsonText(_, _, _)
JsonText(x, itemsep, keysep) ==
    CASE x.t = "str" -> QuoteStr(x.s)
      [] x.t = "int" -> IntToStr(x.n)
      [] x.t = "bool" -> IF x.n = 1 THEN << "t", "r", "u", "e" >> ELSE << "f", "a", "l", "s", "e" >>
      [] x.t = "none" -> << "n", "u", "l", "l" >>
      [] x.t = "list" ->
            << "[" >>
            \o JoinSeqs(SubSeq([i \in 1 .. Len(x.xs) |-> JsonText(x.xs[i], itemsep, keysep)],
                               1, Len(x.xs)),
                        itemsep)
            \o << "]" >>
      [] x.t = "dict" ->
            << "{" >>
            \o JoinSeqs(SubSeq([i \in 1 .. Len(x.kv) |->
                                   QuoteStr(x.kv[i].k) \o keysep
                                   \o JsonText(x.kv[i].x, itemsep, keysep)],
                               1, Len(x.kv)),
                        itemsep)
            \o << "}" >>

\* json.dumps(x): [ok, v], ok = FALSE is TypeError (not JSON serializable)
JsonDumps(x, itemsep, keysep) ==
    IF Serializable(x) THEN [ok |-> TRUE, v |-> JsonText(x, itemsep, keysep)]
    ELSE [ok |-> FALSE, v |-> << >>]

\* json.dumps(x): the default separators
DumpsDefault(x) == JsonDumps(x, << ",", " " >>, << ":", " " >>)

\* json.dumps(x, separators=(',', ':'))
DumpsCompact(x) == JsonDumps(x, << "," >>, << ":" >>)

(***************************************************************************)
(* json.loads: the scanner of json.decoder / json.scanner.  Positions are  *)
(* 1-based.  A result is [ok, val, pos]; ok = FALSE is JSONDecodeError.    *)
(* Of the escapes only \" and \\ are scanned and a number is a run of      *)
(* digits: the texts of this model hold no other escape, sign, fraction or *)
(* exponent.                                                               *)
(***************************************************************************)
ScanFail == [ok |-> FALSE, val |-> PyNone, pos |-> 0]

ScanOk(x, p) == [ok |-> TRUE, val |-> x, pos |-> p]

At(s, i) == IF i >= 1 /\ i <= Len(s) THEN s[i] ELSE ""

RECURSIVE SkipWs(_, _)
SkipWs(s, i) == IF At(s, i) = " " THEN SkipWs(s, i + 1) ELSE i

\* py_scanstring: a chunk of plain characters up to the next quote or backslash,
\* then the end of the string or one escape.  i is the position after the quote.
RECURSIVE ScanString(_, _, _)
ScanString(s, i, acc) ==
    LET stops == {j \in i .. Len(s) : s[j] \in Special}
        j == CHOOSE a \in stops : \A b \in stops : a <= b
        chunk == acc \o Slice(s, i - 1, j - 1)
    IN  IF stops = {} THEN ScanFail
        ELSE IF s[j] = "\"" THEN ScanOk(PyStr(chunk), j + 1)
        ELSE IF At(s, j + 1) \in Special
             THEN ScanString(s, j + 2, Append(chunk, s[j + 1]))
        ELSE ScanFail

IsDigit(c) == \E k \in 1 .. Len(Digits) : Digits[k] = c

DigitVal(c) == IndexOf(Digits, c) - 1

RECURSIVE ScanDigits(_, _, _)
ScanDigits(s, i, acc) ==
    IF IsDigit(At(s, i)) THEN ScanDigits(s, i + 1, 10 * acc + DigitVal(s[i]))
    ELSE ScanOk(PyInt(acc), i)

\* NUMBER_RE: 0, or a digit 1-9 followed by digits
ScanNumber(s, i) ==
    IF s[i] = "0" THEN ScanOk(PyInt(0), i + 1) ELSE ScanDigits(s, i, 0)

StartsAt(s, i, word) == Slice(s, i - 1, i - 1 + Len(word)) = word

RECURSIVE ScanOnce(_, _)
RECURSIVE ScanArrayItems(_, _, _)
RECURSIVE ScanObjectItems(_, _, _)

\* JSONArray: i is the position after "["
ScanArray(s, i) ==
    LET j == SkipWs(s, i)
    IN  IF At(s, j) = "]" THEN ScanOk(PyList(<< >>), j + 1)
        ELSE ScanArrayItems(s, j, << >>)

ScanArrayItems(s, i, acc) ==
    LET r == ScanOnce(s, i)
        j == SkipWs(s, r.pos)
    IN  IF ~r.ok THEN ScanFail
        ELSE IF At(s, j) = "]" THEN ScanOk(PyList(Append(acc, r.val)), j + 1)
        ELSE IF At(s, j) = "," THEN ScanArrayItems(s, SkipWs(s, j + 1), Append(acc, r.val))
        ELSE ScanFail

\* JSONObject: i is the position after "{"
ScanObject(s, i) ==
    LET j == SkipWs(s, i)
    IN  IF At(s, j) = "}" THEN ScanOk(PyDict(<< >>), j + 1)
        ELSE IF At(s, j) = "\"" THEN ScanObjectItems(s, j + 1, << >>)
        ELSE ScanFail

\* i is the position after the opening quote of a key
ScanObjectItems(s, i, acc) ==
    LET k == ScanString(s, i, << >>)
        c == SkipWs(s, k.pos)
        r == ScanOnce(s, SkipWs(s, c + 1))
        j == SkipWs(s, r.pos)
        n == SkipWs(s, j + 1)
        items == Append(acc, Item(k.val.s, r.val))
    IN  IF ~k.ok THEN ScanFail
        ELSE IF At(s, c) # ":" THEN ScanFail
        ELSE IF ~r.ok THEN ScanFail
        ELSE IF At(s, j) = "}" THEN ScanOk(PyDict(DictFromPairs(items, << >>)), j + 1)
        ELSE IF At(s, j) # "," THEN ScanFail
        ELSE IF At(s, n) # "\"" THEN ScanFail
        ELSE ScanObjectItems(s, n + 1, items)

\* _scan_once
ScanOnce(s, i) ==
    LET c == At(s, i)
    IN  CASE c = "\"" -> ScanString(s, i + 1, << >>)
          [] c = "{" -> ScanObject(s, i + 1)
          [] c = "[" -> ScanArray(s, i + 1)
          [] c = "n" /\ StartsAt(s, i, << "n", "u", "l", "l" >>) -> ScanOk(PyNone, i + 4)
          [] c = "t" /\ StartsAt(s, i, << "t", "r", "u", "e" >>) -> ScanOk(PyBool(TRUE), i + 4)
          [] c = "f" /\ StartsAt(s, i, << "f", "a", "l", "s", "e" >>) -> ScanOk(PyBool(FALSE), i + 5)
          [] IsDigit(c) -> ScanNumber(s, i)
          [] OTHER -> ScanFail

\* json.loads(s): [ok, val]; the whole text must be one value between whitespace
JsonLoads(s) ==
    LET r == ScanOnce(s, SkipWs(s, 1))
    IN  IF r.ok /\ SkipWs(s, r.pos) = Len(s) + 1
        THEN [ok |-> TRUE, val |-> r.val]
        ELSE [ok |-> FALSE, val |-> PyNone]

(***************************************************************************)
(* The codec.  A file's content is a sequence of bytes.                    *)
(***************************************************************************)
METADATA_KEY == << "_", "_", "m", "e", "t", "a", "d", "a", "t", "a", "_", "_" >>

\* what extract_safetensors_metadata returns: ok = FALSE is None
NoResult == [ok |-> FALSE, metadata |-> PyNone, formatted_metadata |-> PyNone]

\* the length the program takes the header to have: bytes 0..3 of the prefix
MetadataSize(file_data) == UnpackI(Slice(file_data, 0, WordLen))

\* json.loads(metadata_bytes.decode('utf-8')): ok = FALSE is an exception
LoadsDecoded(text) ==
    IF text.ok THEN JsonLoads(text.v) ELSE [ok |-> FALSE, val |-> PyNone]

ParseHeader(metadata_bytes) == LoadsDecoded(Utf8Decode(metadata_bytes))

\* lines 64-72: a string value is replaced by what it parses to, if it parses
ParsedOr(parsed, x) == IF parsed.ok THEN parsed.val ELSE x

\* a reader that hands back what is stored, unparsed
ProcessValueStored(x) == x

ProcessValue(x) == IF x.t = "str" THEN ParsedOr(JsonLoads(x.s), x) ELSE x

\* lines 62-72
ProcessMetadata(formatted_metadata) ==
    PyDict(SubSeq([i \in 1 .. Len(formatted_metadata.kv) |->
                      Item(formatted_metadata.kv[i].k,
                           ProcessValue(formatted_metadata.kv[i].x))],
                  1, Len(formatted_metadata.kv)))

\* lines 58-77
ExtractFormatted(formatted_metadata) ==
    IF ~Truthy(formatted_metadata) THEN NoResult
    ELSE IF formatted_metadata.t # "dict" THEN NoResult       \* no .items
    ELSE [ok |-> TRUE, metadata |-> ProcessMetadata(formatted_metadata),
          formatted_metadata |-> formatted_metadata]

\* lines 53-56
ExtractParsed(header) ==
    IF ~header.ok THEN NoResult                 \* UnicodeDecodeError, JSONDecodeError
    ELSE IF header.val.t # "dict" THEN NoResult               \* no .get
    ELSE ExtractFormatted(IF DictHas(header.val.kv, METADATA_KEY)
                          THEN DictGet(header.val.kv, METADATA_KEY)
                          ELSE PyDict(<< >>))

\* lines 47-50
ExtractRead(file_data, metadata_size) ==
    IF Len(Slice(file_data, PrefixLen, PrefixLen + metadata_size)) < metadata_size
    THEN NoResult
    ELSE ExtractParsed(ParseHeader(Slice(file_data, PrefixLen, PrefixLen + metadata_size)))

extract_safetensors_metadata(file_data) ==
    IF Len(Slice(file_data, 0, PrefixLen)) < PrefixLen THEN NoResult
    ELSE ExtractRead(file_data, MetadataSize(file_data))

\* lines 107-111: a dict or a list becomes its JSON text, anything else stays
FormatValue(x) ==
    IF x.t \in {"dict", "list"} THEN PyStr(DumpsDefault(x).v) ELSE x

\* lines 105-111
FormatMetadata(new_metadata) ==
    PyDict(SubSeq([i \in 1 .. Len(new_metadata.kv) |->
                      Item(new_metadata.kv[i].k, FormatValue(new_metadata.kv[i].x))],
                  1, Len(new_metadata.kv)))

\* line 122: the length in the low word, then four zero bytes
HeaderWithSize(size_bytes, new_header_bytes) ==
    size_bytes \o Repeat(0, PrefixLen - WordLen) \o new_header_bytes

\* line 125: everything after the original header
TensorData(file_data, metadata_size) == SliceFrom(file_data, PrefixLen + metadata_size)

\* what update_safetensors_metadata does to a file: ok is its return value and
\* data the content of the file afterwards (nothing is written when ok = FALSE)
UpdateFailed(file_data) == [ok |-> FALSE, data |-> file_data]

\* lines 122-134
UpdatePacked(file_data, metadata_size, new_header_bytes, size_bytes) ==
    IF ~size_bytes.ok THEN UpdateFailed(file_data)            \* struct.error
    ELSE [ok |-> TRUE,
          data |-> HeaderWithSize(size_bytes.v, new_header_bytes)
                   \o TensorData(file_data, metadata_size)]

\* lines 118-119
UpdateEncoded(file_data, metadata_size, new_header_bytes) ==
    UpdatePacked(file_data, metadata_size, new_header_bytes, PackI(Len(new_header_bytes)))

\* line 117
UpdateSerialized(file_data, metadata_size, new_header_json) ==
    IF ~new_header_json.ok THEN UpdateFailed(file_data)       \* TypeError in json.dumps
    ELSE UpdateEncoded(file_data, metadata_size, Utf8Encode(new_header_json.v))

\* lines 102-114
UpdateParsed(file_data, new_metadata, metadata_size, header) ==
    IF ~header.ok THEN UpdateFailed(file_data)  \* UnicodeDecodeError, JSONDecodeError
    ELSE IF new_metadata.t # "dict" THEN UpdateFailed(file_data)   \* no .items
    ELSE IF \E i \in 1 .. Len(new_metadata.kv) :
                /\ new_metadata.kv[i].x.t \in {"dict", "list"}
                /\ ~Serializable(new_metadata.kv[i].x)
         THEN UpdateFailed(file_data)                         \* TypeError in json.dumps
    ELSE IF header.val.t # "dict" THEN UpdateFailed(file_data)     \* no item assignment
    ELSE UpdateSerialized(file_data, metadata_size,
            DumpsCompact(PyDict(DictSet(header.val.kv, METADATA_KEY,
                                        FormatMetadata(new_metadata)))))

\* lines 95-99
UpdateRead(file_data, new_metadata, metadata_size) ==
    IF Len(Slice(file_data, PrefixLen, PrefixLen + metadata_size)) < metadata_size
    THEN UpdateFailed(file_data)
    ELSE UpdateParsed(file_data, new_metadata, metadata_size,
            ParseHeader(Slice(file_data, PrefixLen, PrefixLen + metadata_size)))

update_safetensors_metadata(file_data, new_metadata) ==
    IF Len(Slice(file_data, 0, PrefixLen)) < PrefixLen THEN UpdateFailed(file_data)
    ELSE UpdateRead(file_data, new_metadata, MetadataSize(file_data))

(***************************************************************************)
(* Paths: os.path (posixpath) on strings, a string being the sequence of   *)
(* its characters.                                                         *)
(***************************************************************************)
StartsWith(s, prefix) == Len(prefix) <= Len(s) /\ SubSeq(s, 1, Len(prefix)) = prefix

EndsWith(s, suffix) ==
    Len(suffix) <= Len(s) /\ SubSeq(s, Len(s) - Len(suffix) + 1, Len(s)) = suffix

Uppers == << "S", "A", "F", "E", "T", "N", "O", "R" >>

Lowers == << "s", "a", "f", "e", "t", "n", "o", "r" >>

\* str.lower
Lower(s) ==
    SubSeq([i \in 1 .. Len(s) |->
               IF \E k \in 1 .. Len(Uppers) : Uppers[k] = s[i]
               THEN Lowers[IndexOf(Uppers, s[i])]
               ELSE s[i]],
           1, Len(s))

\* str.split('/')
RECURSIVE SplitPath(_)
SplitPath(s) ==
    LET seps == {j \in 1 .. Len(s) : s[j] = "/"}
        j == CHOOSE a \in seps : \A b \in seps : a <= b
    IN  IF seps = {} THEN << s >>
        ELSE << Slice(s, 0, j - 1) >> \o SplitPath(SliceFrom(s, j))

\* os.path.join(a, b)
PathJoin(a, b) ==
    IF StartsWith(b, << "/" >>) THEN b
    ELSE IF a = << >> \/ EndsWith(a, << "/" >>) THEN a \o b
    ELSE a \o << "/" >> \o b

DotDot == << ".", "." >>

\* the loop of posixpath.normpath over the components
RECURSIVE NormComps(_, _, _)
NormComps(comps, initial_slashes, new_comps) ==
    IF comps = << >> THEN new_comps
    ELSE LET comp == Head(comps)
             rest == Tail(comps)
         IN  IF comp \in {<< >>, << "." >>}
             THEN NormComps(rest, initial_slashes, new_comps)
             ELSE IF \/ comp # DotDot
                     \/ (initial_slashes = 0 /\ new_comps = << >>)
                     \/ (new_comps # << >> /\ new_comps[Len(new_comps)] = DotDot)
             THEN NormComps(rest, initial_slashes, Append(new_comps, comp))
             ELSE IF new_comps # << >>
             THEN NormComps(rest, initial_slashes, SubSeq(new_comps, 1, Len(new_comps) - 1))
             ELSE NormComps(rest, initial_slashes, new_comps)

\* posixpath.normpath
NormPath(path) ==
    LET initial_slashes ==
            IF ~StartsWith(path, << "/" >>) THEN 0
            ELSE IF StartsWith(path, << "/", "/" >>) /\ ~StartsWith(path, << "/", "/", "/" >>)
            THEN 2
            ELSE 1
        joined == JoinSeqs(NormComps(SplitPath(path), initial_slashes, << >>), << "/" >>)
        out == Repeat("/", initial_slashes) \o joined
    IN  IF path = << >> \/ out = << >> THEN << "." >> ELSE out

\* the working directory of the server process
Cwd == << "/", "s", "r", "v" >>

\* os.path.abspath
AbsPath(path) ==
    IF StartsWith(path, << "/" >>) THEN NormPath(path) ELSE NormPath(PathJoin(Cwd, path))

\* the directory the server was started on: main stores os.path.abspath of the
\* --directory argument, so the value is absolute and normalized
FILES_DIR == << "/", "s", "r", "v", "/", "l", "o", "r", "a" >>

Extension == << ".", "s", "a", "f", "e", "t", "e", "n", "s", "o", "r", "s" >>

\* the files of the machine: one under FILES_DIR, one in a sibling directory whose
\* name starts with FILES_DIR's name, one in the parent directory
InsideFile == << "/", "s", "r", "v", "/", "l", "o", "r", "a", "/", "a", ".", "s", "a", "f", "e", "t", "e", "n", "s", "o", "r", "s" >>

SiblingFile == << "/", "s", "r", "v", "/", "l", "o", "r", "a", "2", "/", "x", ".", "s", "a", "f", "e", "t", "e", "n", "s", "o", "r", "s" >>

OutsideFile == << "/", "s", "r", "v", "/", "b", ".", "s", "a", "f", "e", "t", "e", "n", "s", "o", "r", "s" >>

FilePaths == {InsideFile, SiblingFile, OutsideFile}

Dirs == { << "/" >>,
          << "/", "s", "r", "v" >>,
          << "/", "s", "r", "v", "/", "l", "o", "r", "a" >>,
          << "/", "s", "r", "v", "/", "l", "o", "r", "a", "2" >> }

(***************************************************************************)
(* Inputs: the files found on disk, the metadata maps and request bodies   *)
(* callers send, the names they ask for.                                   *)
(***************************************************************************)
KeyA == << "a" >>

KeyB == << "b" >>

Descriptor == Item(<< "t" >>, PyList(<< PyInt(1), PyInt(2) >>))

Descriptor2 == Item(<< "d" >>, PyDict(<< Item(<< "t" >>, PyInt(10)) >>))

MetaItem(items) == Item(METADATA_KEY, PyDict(items))

HdrMetaFirst == PyDict(<< MetaItem(<< Item(KeyA, PyStr(<< "b" >>)) >>), Descriptor >>)

HdrNoMeta == PyDict(<< Descriptor, Descriptor2 >>)

HdrStructured ==
    PyDict(<< Descriptor,
              MetaItem(<< Item(KeyA, PyStr(<< "[", "1", ",", " ", "2", "]" >>)),
                          Item(KeyB, PyStr(<< "8" >>)) >>) >>)

\* written by another producer: a __metadata__ value that is not a string
HdrForeign == PyDict(<< Descriptor2, MetaItem(<< Item(KeyA, PyInt(7)) >>) >>)

HdrMetaList == PyDict(<< Item(METADATA_KEY, PyList(<< PyInt(1) >>)) >>)

Payload == << 1, 2, 3, 0, 2 >>

ZeroHigh == Repeat(0, PrefixLen - WordLen)

\* a file: the length of the text in the low word, `high` in the high word
Container(text, high, payload) ==
    PackI(CharWidth * Len(text)).v \o high \o Utf8Encode(text) \o payload

GoodFile == Container(DumpsCompact(HdrMetaFirst).v, ZeroHigh, Payload)

InitFiles ==
    { GoodFile,
      Container(DumpsCompact(HdrNoMeta).v, ZeroHigh, Payload),
      Container(<< " " >> \o DumpsDefault(HdrStructured).v, ZeroHigh, Payload),
      Container(DumpsCompact(HdrForeign).v, ZeroHigh, << >>),
      Container(DumpsCompact(HdrMetaList).v, ZeroHigh, Payload),
      Container(<< "[", "1", "]" >>, ZeroHigh, Payload),
      Container(<< "{" >>, ZeroHigh, Payload),
      \* a non-zero high word
      Container(DumpsCompact(HdrMetaFirst).v, << 1, 0, 0, 0 >>, Payload),
      Container(DumpsCompact(HdrNoMeta).v, << 0, 0, 0, 2 >>, << >>),
      \* bytes that are no UTF-8
      PackI(CharWidth).v \o ZeroHigh \o Repeat(Base - 1, CharWidth) \o Payload,
      \* truncated: inside the prefix, inside the header
      << 1, 0, 0, 0 >>,
      SubSeq(GoodFile, 1, PrefixLen + CharWidth),
      << >> }

\* a string too long for the header to fit the length word
BigLen == WordLimit \div CharWidth

NmEmpty == PyDict(<< >>)

NmPlain == PyDict(<< Item(KeyA, PyStr(<< "b", "b" >>)) >>)

NmTags ==
    PyDict(<< Item(KeyA, PyList(<< PyStr(<< "a" >>), PyStr(<< "b" >>) >>)),
              Item(KeyB, PyInt(8)) >>)

NmObject == PyDict(<< Item(KeyB, PyDict(<< Item(KeyA, PyInt(1)) >>)) >>)

NmQuote == PyDict(<< Item(KeyA, PyStr(<< "\"", "b" >>)) >>)

NmNumStr == PyDict(<< Item(KeyB, PyStr(<< "8" >>)) >>)

NmBool == PyDict(<< Item(KeyA, PyBool(TRUE)), Item(KeyB, PyNone) >>)

NmBig == PyDict(<< Item(KeyA, PyStr(Repeat("a", BigLen))) >>)

\* what a request body can carry under "metadata"
JsonMetadata ==
    { NmEmpty, NmPlain, NmTags, NmObject, NmQuote, NmNumStr, NmBool, NmBig,
      PyList(<< PyInt(1) >>), PyInt(8) }

\* what a caller of update_safetensors_metadata can pass
NewMetadata ==
    JsonMetadata
    \cup { PyDict(<< Item(KeyA, PyObj) >>), PyDict(<< Item(KeyA, PyList(<< PyObj >>)) >>) }

MetadataWord == << "m", "e", "t", "a", "d", "a", "t", "a" >>

Bodies ==
    { PyDict(<< Item(MetadataWord, nm) >>) : nm \in JsonMetadata }
    \cup { PyDict(<< >>), PyDict(<< Item(KeyA, PyInt(1)) >>),
           PyList(<< PyStr(MetadataWord) >>), PyInt(8) }

AName == << "a", ".", "s", "a", "f", "e", "t", "e", "n", "s", "o", "r", "s" >>

MissingName == << "c", ".", "s", "a", "f", "e", "t", "e", "n", "s", "o", "r", "s" >>

Names == {AName, MissingName}

(***************************************************************************)
(* State.  disk is the content of every file.  The other variables record  *)
(* the last request: what was asked, what was answered, the disk before    *)
(* it, the files it opened, and the calls of the two codec functions it    *)
(* made.  pc, local, observed and versions belong to the requests that run *)
(* in threads at the same time (SpecConc).                                 *)
(***************************************************************************)
VARIABLES disk, old, req, resp, touched, upd, ext, requests, pc, local, observed, versions

vars == << disk, old, req, resp, touched, upd, ext, requests, pc, local, observed, versions >>

\* the requests of one run
MaxRequests == 2

concVars == << pc, local, observed, versions >>

\* the requests in flight at the same time
MaxThreads == 2

Threads == 1 .. MaxThreads

NoUpdate == [called |-> FALSE, ok |-> FALSE, arg |-> PyNone, before |-> << >>, after |-> << >>]

NoExtract == [called |-> FALSE, input |-> << >>, result |-> NoResult]

NoLocal == [op |-> "none", arg |-> PyNone, data |-> << >>]

Exists(path) == path \in FilePaths \/ path \in Dirs

\* lines 198-200: the path a handler works on
ResolvePath(filename) == AbsPath(PathJoin(FILES_DIR, filename))

\* lines 203, 246, 287: the security check
InAllowedDir(file_path) == StartsWith(file_path, AbsPath(FILES_DIR))

\* 'metadata' in request_data, then request_data['metadata']:
\* "absent", "error" (TypeError) or "present"
MetadataLookup(request_data) ==
    CASE request_data.t = "dict" ->
            IF DictHas(request_data.kv, MetadataWord) THEN "present" ELSE "absent"
      [] request_data.t = "list" ->
            IF \E i \in 1 .. Len(request_data.xs) : request_data.xs[i] = PyStr(MetadataWord)
            THEN "error" ELSE "absent"
      [] request_data.t = "str" ->
            IF \E i \in 0 .. Len(request_data.s) : StartsWith(SliceFrom(request_data.s, i), MetadataWord)
            THEN "error" ELSE "absent"
      [] OTHER -> "error"

Response(status) == [status |-> status, served |-> << >>]

InitCommon ==
    /\ old = disk
    /\ req = [op |-> "none", filename |-> << >>, path |-> << >>, body |-> PyNone]
    /\ resp = Response(0)
    /\ touched = {}
    /\ upd = NoUpdate
    /\ ext = NoExtract
    /\ requests = 0
    /\ pc = [t \in Threads |-> "idle"]
    /\ local = [t \in Threads |-> NoLocal]
    /\ observed = {}
    /\ versions = {disk[InsideFile]}

Init ==
    /\ \E f \in InitFiles :
            disk = [p \in FilePaths |-> IF p = InsideFile THEN f ELSE GoodFile]
    /\ InitCommon

\* a run serves MaxRequests requests
Serving == requests < MaxRequests

\* what a request leaves behind
Record(op, filename, file_path, body, answer, newdisk, opened, update, extract) ==
    /\ requests' = requests + 1
    /\ old' = disk
    /\ req' = [op |-> op, filename |-> filename, path |-> file_path, body |-> body]
    /\ resp' = answer
    /\ disk' = newdisk
    /\ touched' = opened
    /\ upd' = update
    /\ ext' = extract
    /\ UNCHANGED concVars

Updated(file_path, new_metadata, r) ==
    [called |-> TRUE, ok |-> r.ok, arg |-> new_metadata,
     before |-> disk[file_path], after |-> r.data]

Extracted(file_data, result) == [called |-> TRUE, input |-> file_data, result |-> result]

CallUpdateDone(file_path, new_metadata, r) ==
    Record("update", << >>, file_path, new_metadata, Response(0),
           [disk EXCEPT ![file_path] = r.data], {file_path},
           Updated(file_path, new_metadata, r), NoExtract)

\* a caller runs update_safetensors_metadata(file_path, new_metadata)
CallUpdate(file_path, new_metadata) ==
    /\ Serving
    /\ CallUpdateDone(file_path, new_metadata,
                      update_safetensors_metadata(disk[file_path], new_metadata))

\* a caller runs extract_safetensors_metadata(file_path)
CallExtract(file_path) ==
    Serving /\
    Record("extract", << >>, file_path, PyNone, Response(0), disk, {file_path}, NoUpdate,
           Extracted(disk[file_path], extract_safetensors_metadata(disk[file_path])))

\* a request that ends before any file is opened
Refused(op, filename, file_path, body, status) ==
    Record(op, filename, file_path, body, Response(status), disk, {}, NoUpdate, NoExtract)

\* lines 198-227
ServeResolved(filename, file_path) ==
    IF ~InAllowedDir(file_path) THEN Refused("FILE", filename, file_path, PyNone, 403)
    ELSE IF ~Exists(file_path) THEN Refused("FILE", filename, file_path, PyNone, 404)
    ELSE IF file_path \in Dirs                                \* send_file raises
    THEN Refused("FILE", filename, file_path, PyNone, 500)
    ELSE Record("FILE", filename, file_path, PyNone,
                [status |-> 200, served |-> disk[file_path]],
                disk, {file_path}, NoUpdate, NoExtract)

\* GET /api/file/<path:filename>
serve_file(filename) ==
    /\ Serving
    /\ ServeResolved(filename, ResolvePath(filename))

\* lines 259-268
GetExtracted(filename, file_path, result) ==
    Record("GET", filename, file_path, PyNone,
           IF result.ok THEN Response(200) ELSE Response(404),
           disk, {file_path}, NoUpdate, Extracted(disk[file_path], result))

\* lines 241-259
GetResolved(filename, file_path) ==
    IF ~InAllowedDir(file_path) THEN Refused("GET", filename, file_path, PyNone, 403)
    ELSE IF ~Exists(file_path) THEN Refused("GET", filename, file_path, PyNone, 404)
    ELSE IF ~EndsWith(Lower(file_path), Extension)
    THEN Refused("GET", filename, file_path, PyNone, 400)
    ELSE GetExtracted(filename, file_path, extract_safetensors_metadata(disk[file_path]))

\* GET /api/metadata/<path:filename>
get_file_metadata(filename) ==
    /\ Serving
    /\ GetResolved(filename, ResolvePath(filename))

\* lines 313-321: the answer after a successful update
PutVerified(filename, file_path, request_data, new_metadata, r, result) ==
    Record("PUT", filename, file_path, request_data,
           IF result.ok THEN Response(200) ELSE Response(500),
           [disk EXCEPT ![file_path] = r.data], {file_path},
           Updated(file_path, new_metadata, r), Extracted(r.data, result))

\* lines 307-313
PutUpdated(filename, file_path, request_data, new_metadata, r) ==
    IF ~r.ok
    THEN Record("PUT", filename, file_path, request_data, Response(500),
                [disk EXCEPT ![file_path] = r.data], {file_path},
                Updated(file_path, new_metadata, r), NoExtract)
    ELSE PutVerified(filename, file_path, request_data, new_metadata, r,
                     extract_safetensors_metadata(r.data))

\* lines 298-307
PutLookedUp(filename, file_path, request_data, lookup) ==
    IF lookup = "absent" THEN Refused("PUT", filename, file_path, request_data, 400)
    ELSE IF lookup = "error" THEN Refused("PUT", filename, file_path, request_data, 500)
    ELSE PutUpdated(filename, file_path, request_data,
                    DictGet(request_data.kv, MetadataWord),
                    update_safetensors_metadata(disk[file_path],
                                                DictGet(request_data.kv, MetadataWord)))

\* lines 282-298
PutResolved(filename, file_path, request_data) ==
    IF ~InAllowedDir(file_path) THEN Refused("PUT", filename, file_path, request_data, 403)
    ELSE IF ~Exists(file_path) THEN Refused("PUT", filename, file_path, request_data, 404)
    ELSE IF ~EndsWith(Lower(file_path), Extension)
    THEN Refused("PUT", filename, file_path, request_data, 400)
    ELSE PutLookedUp(filename, file_path, request_data,
                     IF ~Truthy(request_data) THEN "absent"
                     ELSE MetadataLookup(request_data))

\* PUT /api/metadata/<path:filename> with the JSON body request_data
update_file_metadata(filename, request_data) ==
    /\ Serving
    /\ PutResolved(filename, ResolvePath(filename), request_data)

\* one more request, while the run has some left
Next ==
    \/ \E nm \in NewMetadata : CallUpdate(InsideFile, nm)
    \/ CallExtract(InsideFile)
    \/ \E fn \in Names : serve_file(fn)
    \/ \E fn \in Names : get_file_metadata(fn)
    \/ \E fn \in Names, body \in Bodies : update_file_metadata(fn, body)

Spec == Init /\ [][Next]_vars

(***************************************************************************)
(* Names that climb out of FILES_DIR.  SpecPath sends the three handlers   *)
(* every name of up to MaxDepth components.                                *)
(***************************************************************************)
MaxDepth == 3

PathParts ==
    { DotDot,
      << "l", "o", "r", "a", "2" >>,
      << "x", ".", "s", "a", "f", "e", "t", "e", "n", "s", "o", "r", "s" >>,
      AName }

PathNames ==
    UNION { { JoinSeqs(parts, << "/" >>) : parts \in [1 .. d -> PathParts] } : d \in 1 .. MaxDepth }

PathBody == PyDict(<< Item(MetadataWord, NmPlain) >>)

InitPath ==
    /\ disk = [p \in FilePaths |-> GoodFile]
    /\ InitCommon

NextPath ==
    \/ \E fn \in PathNames : serve_file(fn)
    \/ \E fn \in PathNames : get_file_metadata(fn)
    \/ \E fn \in PathNames : update_file_metadata(fn, PathBody)

SpecPath == InitPath /\ [][NextPath]_vars

(***************************************************************************)
(* Requests in threads.  app.run serves every request in a thread of its   *)
(* own, so the file accesses of requests on one file interleave.  A step   *)
(* is one access to the file: a read of its content, the open for writing  *)
(* (which empties the file), the write.                                    *)
(***************************************************************************)
ConcMetadata == {NmPlain, NmTags}

requestVars == << old, req, resp, touched, upd, ext, requests >>

\* a request arrives and gets its thread
Begin(t, op, arg) ==
    /\ pc[t] = "idle"
    /\ pc' = [pc EXCEPT ![t] = CASE op = "PUT" -> "u_read"
                                 [] op = "GET" -> "g_read"
                                 [] OTHER -> "f_read"]
    /\ local' = [local EXCEPT ![t] = [op |-> op, arg |-> arg, data |-> << >>]]
    /\ UNCHANGED << disk, observed, versions, requestVars >>

\* lines 87-128: what was read, and the new content if there is one to write
UpdateComputed(t, file_data, r) ==
    /\ observed' = observed \cup {file_data}
    /\ pc' = [pc EXCEPT ![t] = IF r.ok THEN "u_open" ELSE "done"]
    /\ local' = [local EXCEPT ![t].data = r.data]
    /\ UNCHANGED << disk, versions, requestVars >>

\* lines 87-88: update_safetensors_metadata reads the whole file
UpdateReadFile(t) ==
    /\ pc[t] = "u_read"
    /\ UpdateComputed(t, disk[InsideFile],
                      update_safetensors_metadata(disk[InsideFile], local[t].arg))

\* line 131: open(file_path, 'wb') empties the file
UpdateOpen(t) ==
    /\ pc[t] = "u_open"
    /\ disk' = [disk EXCEPT ![InsideFile] = << >>]
    /\ pc' = [pc EXCEPT ![t] = "u_write"]
    /\ UNCHANGED << local, observed, versions, requestVars >>

\* line 132: the write, at offset 0 of whatever the file holds by now
UpdateWrite(t) ==
    /\ pc[t] = "u_write"
    /\ disk' = [disk EXCEPT ![InsideFile] =
                    local[t].data \o SliceFrom(disk[InsideFile], Len(local[t].data))]
    /\ versions' = versions \cup {local[t].data}
    /\ pc' = [pc EXCEPT ![t] = "v_read"]
    /\ UNCHANGED << local, observed, requestVars >>

\* a read of the file by a request: line 313 (update_file_metadata reads the
\* metadata back), lines 38-50 (get_file_metadata), line 215 (serve_file)
ReadFile(t, at) ==
    /\ pc[t] = at
    /\ observed' = observed \cup {disk[InsideFile]}
    /\ pc' = [pc EXCEPT ![t] = "done"]
    /\ UNCHANGED << disk, local, versions, requestVars >>

InitConc ==
    /\ disk = [p \in FilePaths |-> GoodFile]
    /\ InitCommon

NextConc ==
    \/ \E t \in Threads, nm \in ConcMetadata : Begin(t, "PUT", nm)
    \/ \E t \in Threads : Begin(t, "GET", PyNone)
    \/ \E t \in Threads : Begin(t, "FILE", PyNone)
    \/ \E t \in Threads : UpdateReadFile(t)
    \/ \E t \in Threads : UpdateOpen(t)
    \/ \E t \in Threads : UpdateWrite(t)
    \/ \E t \in Threads : ReadFile(t, "v_read")
    \/ \E t \in Threads : ReadFile(t, "g_read")
    \/ \E t \in Threads : ReadFile(t, "f_read")

SpecConc == InitConc /\ [][NextConc]_vars

(***************************************************************************)
(* What the format says of a file, whatever the program reads.             *)
(***************************************************************************)
\* the 8-byte prefix as one unsigned 64-bit little-endian integer
U64(file_data) == LittleEndian(Slice(file_data, 0, PrefixLen))

HasHighWord(file_data) ==
    /\ Len(file_data) >= PrefixLen
    /\ \E i \in (WordLen + 1) .. PrefixLen : file_data[i] # 0

\* the payload by the format: what follows the header the prefix declares
PayloadOf(file_data) == SliceFrom(file_data, PrefixLen + U64(file_data))

\* shorter than the prefix, or than the prefix and the header it declares
Truncated(file_data) ==
    \/ Len(file_data) < PrefixLen
    \/ U64(file_data) > Len(file_data) - PrefixLen

\* the bytes are exactly one JSON value: nothing before it, nothing after it
ExactlyOneJson(bytes) ==
    /\ Utf8Decode(bytes).ok
    /\ ScanOnce(Utf8Decode(bytes).v, 1).ok
    /\ ScanOnce(Utf8Decode(bytes).v, 1).pos = Len(Utf8Decode(bytes).v) + 1

\* the header the prefix of a file declares, parsed
DeclaredHeader(file_data) ==
    ParseHeader(Slice(file_data, PrefixLen, PrefixLen + U64(file_data)))

\* the header the program finds in a file, parsed
FoundHeader(file_data) ==
    ParseHeader(Slice(file_data, PrefixLen, PrefixLen + MetadataSize(file_data)))

\* the items of a header that are not __metadata__
Descriptors(header) ==
    { header.kv[i] : i \in { j \in 1 .. Len(header.kv) : header.kv[j].k # METADATA_KEY } }

\* path is FILES_DIR or below it
WithinRoot(path) == path = FILES_DIR \/ StartsWith(path, FILES_DIR \o << "/" >>)

(***************************************************************************)
(* The claims.                                                             *)
(***************************************************************************)
\* C1: after a successful update_safetensors_metadata the bytes from offset
\* 8 + new header length on equal the bytes of the file before the update from
\* offset 8 + old header length on, the lengths being the 64-bit prefixes.
C1_PayloadInvariance ==
    upd.called /\ upd.ok => PayloadOf(upd.after) = PayloadOf(upd.before)

\* C2: the 8-byte prefix of a file written by update_safetensors_metadata, read
\* as one 64-bit integer, is the exact byte length of the JSON header after it;
\* an update that cannot say so (a header too long for the length word) fails
\* and writes nothing.
C2_HeaderLength ==
    upd.called =>
        IF upd.ok
        THEN /\ PrefixLen + U64(upd.after) <= Len(upd.after)
             /\ ExactlyOneJson(Slice(upd.after, PrefixLen, PrefixLen + U64(upd.after)))
        ELSE upd.after = upd.before

C2_Witness ==
    /\ upd.called /\ upd.ok
    /\ U64(upd.after) # U64(upd.before)
    /\ disk[InsideFile] = upd.after

\* C3: a file with a non-zero byte among prefix bytes 4..7 is rejected: extract
\* returns nothing, update fails and leaves the file as it was.
C3_HighWordRejected ==
    /\ ext.called /\ HasHighWord(ext.input) => ~ext.result.ok
    /\ upd.called /\ HasHighWord(upd.before) => ~upd.ok /\ upd.after = upd.before

\* C4: a PUT whose update is reported as failed (update_safetensors_metadata
\* returned False, or the handler answered with an error status) leaves every
\* file as it was before the request.
C4_FailureLeavesFile ==
    req.op = "PUT" /\ (resp.status >= 400 \/ (upd.called /\ ~upd.ok)) => disk = old

\* C5: a request whose resolved path is neither FILES_DIR nor below it is
\* answered 403, opens no file and changes none.
C5_PathSafety ==
    req.op \in {"FILE", "GET", "PUT"} /\ ~WithinRoot(req.path) =>
        resp.status = 403 /\ touched = {} /\ disk = old

\* C6: every value under __metadata__ in the header of a file written by
\* update_safetensors_metadata is a string.
C6_AllStrings ==
    upd.called /\ upd.ok =>
        /\ DeclaredHeader(upd.after).ok
        /\ DeclaredHeader(upd.after).val.t = "dict"
        /\ DictHas(DeclaredHeader(upd.after).val.kv, METADATA_KEY)
        /\ DictGet(DeclaredHeader(upd.after).val.kv, METADATA_KEY).t = "dict"
        /\ \A i \in 1 .. Len(DictGet(DeclaredHeader(upd.after).val.kv, METADATA_KEY).kv) :
              DictGet(DeclaredHeader(upd.after).val.kv, METADATA_KEY).kv[i].x.t = "str"

\* C7: a file shorter than 8 bytes, or whose declared header length exceeds the
\* bytes after the prefix, is rejected: extract returns nothing, update fails
\* and leaves the file as it was.
C7_TruncatedRejected ==
    /\ ext.called /\ Truncated(ext.input) => ~ext.result.ok
    /\ upd.called /\ Truncated(upd.before) => ~upd.ok /\ upd.after = upd.before

\* what C8 asks of the metadata read back after new_metadata was written
RoundTrip(new_metadata, result) ==
    /\ result.ok
    /\ \A i \in 1 .. Len(new_metadata.kv) :
          \/ /\ new_metadata.kv[i].x.t \notin {"list", "dict", "int"}
             /\ ~(new_metadata.kv[i].x.t = "str" /\ ~JsonLoads(new_metadata.kv[i].x.s).ok)
          \/ /\ DictHas(result.metadata.kv, new_metadata.kv[i].k)
             /\ DictGet(result.metadata.kv, new_metadata.kv[i].k) = new_metadata.kv[i].x

\* C8: after a successful update with a non-empty map, extract on the written
\* file gives back every array, object and number as the value written (same
\* type), and every string that is no JSON text as that string; so does the
\* read the PUT handler makes after its update.
C8_RoundTrip ==
    upd.called /\ upd.ok /\ Truthy(upd.arg) =>
        /\ RoundTrip(upd.arg, extract_safetensors_metadata(upd.after))
        /\ ext.called => ext.input = upd.after /\ RoundTrip(upd.arg, ext.result)

C8_Witness ==
    /\ req.op = "PUT" /\ resp.status = 200
    /\ upd.called /\ upd.ok /\ ext.called
    /\ \E i \in 1 .. Len(upd.arg.kv) :
          /\ upd.arg.kv[i].x.t = "list"
          /\ DictGet(ext.result.metadata.kv, upd.arg.kv[i].k).t = "list"
    /\ \E i \in 1 .. Len(upd.arg.kv) : upd.arg.kv[i].x.t = "int"

\* C9: every read of the file by a request sees a complete version of it (the
\* original, or what some update wrote), and once all requests are done the
\* payload of the file is the original payload.
C9_AtomicReplacement ==
    /\ observed \subseteq versions
    /\ (\A t \in Threads : pc[t] = "done") => PayloadOf(disk[InsideFile]) = Payload

\* C10: after a successful update the header of the written file has the keys
\* other than __metadata__ of the header the update found, each with the same
\* value.
C10_DescriptorsPreserved ==
    upd.called /\ upd.ok =>
        /\ DeclaredHeader(upd.after).ok
        /\ DeclaredHeader(upd.after).val.t = "dict"
        /\ Descriptors(DeclaredHeader(upd.after).val) = Descriptors(FoundHeader(upd.before).val)

C10_Witness ==
    /\ upd.called /\ upd.ok
    /\ upd.after # upd.before
    /\ Cardinality(Descriptors(FoundHeader(upd.before).val)) = 2
    /\ DictHas(FoundHeader(upd.before).val.kv, METADATA_KEY)

====
